---------------------------- MODULE Spec2Model ----------------------------
(***************************************************************************)
(* A model of the QOI codec of clfs/qoi (src/unnamed/part_000, the most    *)
(* complete revision of qoi.go): the decoder (parseHeader, advance,        *)
(* Decode, DecodeConfig) and the encoder (Encoder.Encode, writeHeader,     *)
(* writeChunks, writeEndMarker) with the buffer pool of example_test.go.   *)
(*                                                                         *)
(* Bytes are integers 0..255 and every uint8 operation is reduced mod 256. *)
(* A Go int holding a dimension is kept as two 16-bit limbs [hi, lo]       *)
(* (value hi * 2^16 + lo), because the dimensions range over 32 bits and   *)
(* more.                                                                   *)
(***************************************************************************)
EXTENDS Integers, Sequences, FiniteSets, TLC

(***************************************************************************)
(* Bounds of the model.                                                    *)
(***************************************************************************)
\* images given to the encoder have 1..MaxPix pixels (every width x height)
MaxPix == 3
\* long images: 62 pixels equal to the start pixel, then 0..MaxTail more
MaxTail == 2
\* Encode calls made through one Encoder (and one pool)
MaxCalls == 2
\* the history of the encoder's index covers the first MaxLog pixels of a call
MaxLog == 4
\* streams given to the decoder: dimensions 0..MaxDim in a well-formed header
MaxDim == 2
\* streams given to the decoder: chunks after the header
MaxBody == 2

(***************************************************************************)
(* Program constants.                                                      *)
(***************************************************************************)
opIndex == 0
opDiff == 64
opLuma == 128
opRun == 192
opRGB == 254
opRGBA == 255
opMask2 == 192
headerLen == 14
\* the 62 of "e.run == 62", the longest run one chunk carries
maxRun == 62
\* the 64 of "[64]color.NRGBA" and of "% 64"
indexLen == 64

magic == <<113, 111, 105, 102>>
endMarker == <<0, 0, 0, 0, 0, 0, 0, 1>>

Byte == 0..255

(***************************************************************************)
(* uint8 arithmetic and bit operations.                                    *)
(***************************************************************************)
\* a variant that saturates at 0 and 255 where uint8 wraps: C19 must tell it
\* from U8
U8_Clamp(n) == IF n < 0 THEN 0 ELSE IF n > 255 THEN 255 ELSE n

U8(n) == n % 256

RECURSIVE BitAnd(_, _)
BitAnd(a, b) ==
    IF a = 0 \/ b = 0 THEN 0
    ELSE (IF a % 2 = 1 /\ b % 2 = 1 THEN 1 ELSE 0) + 2 * BitAnd(a \div 2, b \div 2)

RECURSIVE BitOr(_, _)
BitOr(a, b) ==
    IF a = 0 THEN b
    ELSE IF b = 0 THEN a
    ELSE (IF a % 2 = 1 \/ b % 2 = 1 THEN 1 ELSE 0) + 2 * BitOr(a \div 2, b \div 2)

\* a variant that leaves the bits of b in a: C20 must tell it from BitAndNot
BitAndNot_Keep(a, b) == a

\* a &^ b on bytes
BitAndNot(a, b) == BitAnd(a, 255 - b)

Shr(a, k) == a \div (2 ^ k)

(***************************************************************************)
(* color.NRGBA and the index hash.                                         *)
(***************************************************************************)
NRGBA(r, g, b, a) == [R |-> r, G |-> g, B |-> b, A |-> a]

ZeroPixel == NRGBA(0, 0, 0, 0)

\* color.NRGBA{A: 255}, the start value of prev in Decode and Encoder.Encode
StartPixel == NRGBA(0, 0, 0, 255)

\* a variant that leaves alpha out of the sum: C21 must tell it from hash
hash_NoAlpha(c) == U8(c.R * 3 + c.G * 5 + c.B * 7)

hash(c) == U8(c.R * 3 + c.G * 5 + c.B * 7 + c.A * 11)

\* the zero value of [64]color.NRGBA
ZeroIndex == [i \in 0..(indexLen - 1) |-> ZeroPixel]

(***************************************************************************)
(* Errors.  One record shape for every error value, nil included.          *)
(***************************************************************************)
Err(kind, msg, n) == [kind |-> kind, msg |-> msg, n |-> n]

NoErr == Err("nil", "", 0)
EOF == Err("io.EOF", "", 0)
ErrUnexpectedEOF == Err("io.ErrUnexpectedEOF", "", 0)
FormatError(msg) == Err("FormatError", msg, 0)
\* the error the writer returns from its k-th Write
WriteErr(k) == Err("write", "", k)


(***************************************************************************)
(* Dimensions.  A Go int (64 bits) that holds a width or a height is the   *)
(* pair [hi, lo] with value hi * 2^16 + lo and lo in 0..65535.             *)
(***************************************************************************)
Dim(hi, lo) == [hi |-> hi, lo |-> lo]

IntDim(n) == Dim(0, n)

\* int(binary.BigEndian.Uint32(b)) for the four bytes b
Uint32(b) == Dim(b[1] * 256 + b[2], b[3] * 256 + b[4])

\* binary.BigEndian.PutUint32(_, uint32(v)): the low 32 bits of v, big-endian
PutUint32(v) ==
    <<(v.hi \div 256) % 256, v.hi % 256, v.lo \div 256, v.lo % 256>>

\* x < v for a loop counter x that is a small natural number
LessThanDim(x, v) == v.hi > 0 \/ (v.hi = 0 /\ x < v.lo)

\* the little-endian base-256 digits of a dimension in 0..2^32-1
Limbs(v) == <<v.lo % 256, v.lo \div 256, v.hi % 256, v.hi \div 256>>

RECURSIVE MulLimbs(_, _, _, _)
\* the eight base-256 digits of a * b, from digit k on, given the carry
MulLimbs(a, b, k, carry) ==
    IF k = 8 THEN <<>>
    ELSE LET T(i) == IF (k + 2 - i) \in 1..4 THEN a[i] * b[k + 2 - i] ELSE 0
             s == T(1) + T(2) + T(3) + T(4) + carry
         IN  <<s % 256>> \o MulLimbs(a, b, k + 1, s \div 256)

(***************************************************************************)
(* image.NewNRGBA(image.Rect(0, 0, w, h)) for w, h in 0..2^32-1: the       *)
(* library panics ("huge or negative dimensions") when 4 * w * h does not  *)
(* fit a 64-bit int, that is when w * h >= 2^61; otherwise it returns an   *)
(* image of w * h zero pixels.                                             *)
(***************************************************************************)
NewNRGBAPanics(w, h) == MulLimbs(Limbs(w), Limbs(h), 0, 0)[8] >= 32

NilImage == [nil |-> TRUE, w |-> IntDim(0), h |-> IntDim(0), pix |-> <<>>]

NewNRGBA(w, h) ==
    [nil |-> FALSE, w |-> w, h |-> h,
     pix |-> [i \in 1..(w.lo * h.lo) |-> ZeroPixel]]

\* img.SetNRGBA(x, y, c)
SetNRGBA(img, x, y, c) ==
    [img EXCEPT !.pix = [@ EXCEPT ![y * img.w.lo + x + 1] = c]]

(***************************************************************************)
(* io.ReadFull(r, buf) with len(buf) = n, on a reader over the bytes s of  *)
(* which pos are consumed: all n bytes, or io.EOF when none is left, or    *)
(* io.ErrUnexpectedEOF when fewer than n are left.                         *)
(***************************************************************************)
ReadFull(s, pos, n) ==
    LET avail == Len(s) - pos IN
    IF avail >= n
    THEN [buf |-> SubSeq(s, pos + 1, pos + n), pos |-> pos + n, err |-> NoErr]
    ELSE IF avail = 0
    THEN [buf |-> <<>>, pos |-> pos, err |-> EOF]
    ELSE [buf |-> SubSeq(s, pos + 1, Len(s)), pos |-> Len(s),
          err |-> ErrUnexpectedEOF]

(***************************************************************************)
(* The decoder.                                                            *)
(***************************************************************************)
\* &decoder{r: r, prev: color.NRGBA{A: 255}} (Decode)
NewDecoder ==
    [width |-> IntDim(0), height |-> IntDim(0), img |-> NilImage,
     run |-> 0, index |-> ZeroIndex, prev |-> StartPixel]

\* &decoder{r: r} (DecodeConfig)
NewConfigDecoder == [NewDecoder EXCEPT !.prev = ZeroPixel]

DecodeStep(d, pos, err, panic) ==
    [d |-> d, pos |-> pos, err |-> err, panic |-> panic]

\* the channel-count check of parseHeader
ChannelsOK(b) == b \in {3, 4}

\* the color-space check of parseHeader
ColorSpaceOK(b) == b \in {0, 1}

\* parseHeader from the allocation on: tmp holds header bytes 4..13
parseHeaderAlloc(d, tmp, pos) ==
    LET w == Uint32(SubSeq(tmp, 1, 4))
        h == Uint32(SubSeq(tmp, 5, 8))
        d1 == [d EXCEPT !.width = w, !.height = h]
    IN  IF NewNRGBAPanics(w, h)
        THEN DecodeStep(d1, pos, NoErr, TRUE)
        ELSE LET d2 == [d1 EXCEPT !.img = NewNRGBA(w, h)] IN
             IF ~ChannelsOK(tmp[9])
             THEN DecodeStep(d2, pos, FormatError("invalid channel count"), FALSE)
             ELSE IF ~ColorSpaceOK(tmp[10])
             THEN DecodeStep(d2, pos, FormatError("invalid color space"), FALSE)
             ELSE DecodeStep(d2, pos, NoErr, FALSE)

parseHeader(d, s, pos) ==
    LET r1 == ReadFull(s, pos, Len(magic)) IN
    IF r1.err # NoErr THEN DecodeStep(d, r1.pos, r1.err, FALSE)
    ELSE IF r1.buf # magic
    THEN DecodeStep(d, r1.pos, FormatError("not a QOI file"), FALSE)
    ELSE LET r2 == ReadFull(s, r1.pos, headerLen - Len(magic)) IN
         IF r2.err # NoErr THEN DecodeStep(d, r2.pos, r2.err, FALSE)
         ELSE parseHeaderAlloc(d, r2.buf, r2.pos)

\* a variant that stores prev one slot further: C16 must tell it from StorePrev
StorePrev_Shift(d) ==
    [d EXCEPT !.index[(hash(d.prev) + 1) % indexLen] = d.prev]

\* d.index[hash(d.prev)%64] = d.prev
StorePrev(d) == [d EXCEPT !.index[hash(d.prev) % indexLen] = d.prev]

\* the switch of advance, after the tag byte t was read at pos - 1
advanceTag(d, s, pos, t) ==
    IF t = opRGB THEN
        LET r == ReadFull(s, pos, 3) IN
        IF r.err # NoErr THEN DecodeStep(d, r.pos, r.err, FALSE)
        ELSE DecodeStep(
                StorePrev([d EXCEPT !.prev.R = r.buf[1], !.prev.G = r.buf[2],
                                    !.prev.B = r.buf[3]]),
                r.pos, NoErr, FALSE)
    ELSE IF t = opRGBA THEN
        LET r == ReadFull(s, pos, 4) IN
        IF r.err # NoErr THEN DecodeStep(d, r.pos, r.err, FALSE)
        ELSE DecodeStep(
                StorePrev([d EXCEPT !.prev.R = r.buf[1], !.prev.G = r.buf[2],
                                    !.prev.B = r.buf[3], !.prev.A = r.buf[4]]),
                r.pos, NoErr, FALSE)
    ELSE IF BitAnd(t, opMask2) = opIndex THEN
        DecodeStep(StorePrev([d EXCEPT !.prev = d.index[t]]), pos, NoErr, FALSE)
    ELSE IF BitAnd(t, opMask2) = opDiff THEN
        DecodeStep(
            StorePrev([d EXCEPT
                !.prev.R = U8(@ + U8(BitAnd(Shr(t, 4), 3) - 2)),
                !.prev.G = U8(@ + U8(BitAnd(Shr(t, 2), 3) - 2)),
                !.prev.B = U8(@ + U8(BitAnd(t, 3) - 2))]),
            pos, NoErr, FALSE)
    ELSE IF BitAnd(t, opMask2) = opLuma THEN
        LET r == ReadFull(s, pos, 1) IN
        IF r.err # NoErr THEN DecodeStep(d, r.pos, r.err, FALSE)
        ELSE LET delta == U8(BitAndNot(t, opMask2) - 32) IN
             DecodeStep(
                StorePrev([d EXCEPT
                    !.prev.R = U8(@ + U8(delta - 8 + BitAnd(Shr(r.buf[1], 4), 15))),
                    !.prev.G = U8(@ + delta),
                    !.prev.B = U8(@ + U8(delta - 8 + BitAnd(r.buf[1], 15)))]),
                r.pos, NoErr, FALSE)
    ELSE \* t&opMask2 == opRun
        DecodeStep(StorePrev([d EXCEPT !.run = BitAndNot(t, opMask2)]),
                   pos, NoErr, FALSE)

\* a variant without the run countdown, a tag byte is read in every call:
\* C17 must tell it from advance
advance_NoCountdown(d, s, pos) ==
    LET r == ReadFull(s, pos, 1) IN
    IF r.err # NoErr THEN DecodeStep(d, r.pos, r.err, FALSE)
    ELSE advanceTag(d, s, r.pos, r.buf[1])

advance(d, s, pos) ==
    IF d.run > 0 THEN DecodeStep([d EXCEPT !.run = @ - 1], pos, NoErr, FALSE)
    ELSE LET r == ReadFull(s, pos, 1) IN
         IF r.err # NoErr THEN DecodeStep(d, r.pos, r.err, FALSE)
         ELSE advanceTag(d, s, r.pos, r.buf[1])

\* a variant that hands io.EOF on as it is: C6 must tell it from MapEOF
MapEOF_Keep(err) == err

\* "if err == io.EOF { err = io.ErrUnexpectedEOF }" of Decode and DecodeConfig
MapEOF(err) == IF err = EOF THEN ErrUnexpectedEOF ELSE err

(***************************************************************************)
(* The encoder.                                                            *)
(***************************************************************************)
\* the Channels constants (iota): RGB = 0, RGBA = 1
RGB == 0
RGBA == 1
\* the ColorSpace constants (iota): SRGB = 0, Linear = 1
SRGB == 0
Linear == 1

\* the zero value of the encoder struct (&encoder{}); enc, w and m are the
\* variables enc, writes and m; tmp and cr are scratch
ZeroEncoder ==
    [err |-> NoErr, index |-> ZeroIndex, prev |-> ZeroPixel, run |-> 0]

\* a variant that lets 0 pass (mw < 0): C7 must tell it from NonPositive
NonPositive_Strict(v) == v.hi < 0

\* mw <= 0 || mh <= 0 || mw >= 1<<32 || mh >= 1<<32
NonPositive(v) == v.hi < 0 \/ (v.hi = 0 /\ v.lo = 0)

TooLarge(v) == v.hi >= 65536

InvalidSize(mw, mh) ==
    NonPositive(mw) \/ NonPositive(mh) \/ TooLarge(mw) \/ TooLarge(mh)

\* the 14 bytes writeHeader puts in e.tmp[:14]
HeaderBytes(img, opts) ==
    magic \o PutUint32(img.w) \o PutUint32(img.h)
          \o <<U8(opts.Channels + 3), U8(opts.ColorSpace)>>

\* what one Write of the writer leaves in the log: the bytes handed to it and
\* the error it returned (k counts the Write calls of this Encode)
WriteRecord(data, ok, k) ==
    [data |-> data, err |-> IF ok THEN NoErr ELSE WriteErr(k)]

\* the buffer Encode works on: the pool's, when a pool is set and holds one
GetBuffer(use, p) == IF use /\ ~p.nil THEN p.buf ELSE ZeroEncoder

\* the fields Encode assigns before writing (e.enc, e.w, e.m are variables)
ResetEncoder(e) == [e EXCEPT !.prev = StartPixel]

\* the run chunk of writeChunks: opRun | byte(e.run)
RunChunk(run) == <<BitOr(opRun, U8(run))>>

\* a variant that flushes one pixel late: C18 must tell it from FlushRun
FlushRun_Late(run, last) == run = maxRun + 1 \/ last

\* the condition under which the loop body of writeChunks flushes the run
FlushRun(run, last) == run = maxRun \/ last

\* one iteration of the loop of writeChunks on the pixel c (last: the pixel at
\* Max.X-1, Max.Y-1): the encoder fields it sets and the bytes it writes
PixelStep(e, c, last) ==
    IF c = e.prev
    THEN IF FlushRun(e.run + 1, last)
         THEN [run |-> 0, emit |-> RunChunk(e.run + 1)]
         ELSE [run |-> e.run + 1, emit |-> <<>>]
    ELSE [run |-> e.run, emit |-> <<>>]

\* the bytes of the successful writes of a log, in order
RECURSIVE Written(_)
Written(log) ==
    IF log = <<>> THEN <<>>
    ELSE (IF Head(log).err = NoErr THEN Head(log).data ELSE <<>>)
         \o Written(Tail(log))

(***************************************************************************)
(* Inputs.                                                                 *)
(***************************************************************************)
Red == NRGBA(255, 0, 0, 255)

\* the colours of the images given to the encoder
Palette == {StartPixel, Red, ZeroPixel}

Image(w, h, pix) == [w |-> w, h |-> h, pix |-> pix]

\* every image of 1..MaxPix pixels over the palette
ShortImages ==
    UNION { { Image(IntDim(w), IntDim(h), pix) : pix \in [1..(w * h) -> Palette] } :
            <<w, h>> \in { wh \in (1..MaxPix) \X (1..MaxPix) : wh[1] * wh[2] <= MaxPix } }

\* one row of maxRun pixels equal to the start pixel, then 0..MaxTail more
LongImages ==
    UNION { { Image(IntDim(maxRun + k), IntDim(1),
                    [i \in 1..maxRun |-> StartPixel] \o tail) :
              tail \in [1..k -> Palette] } : k \in 0..MaxTail }

\* the sizes Encode must refuse: -1, 0 and 2^32, beside a good or a bad one
BadDims == {Dim(-1, 65535), Dim(0, 0), Dim(65536, 0)}

BadImages ==
    { Image(w, h, <<>>) :
        <<w, h>> \in { wh \in (BadDims \cup {IntDim(1)}) \X (BadDims \cup {IntDim(1)}) :
                          wh[1] \in BadDims \/ wh[2] \in BadDims } }

NoImage == Image(IntDim(0), IntDim(0), <<>>)

Options == [Channels : {RGB, RGBA}, ColorSpace : {SRGB, Linear}]

\* the arguments of an Encode call: every short or refused image under each of
\* the four options, the long images under the zero Encoder's options
EncodeInputs ==
    ((ShortImages \cup BadImages) \X Options)
        \cup (LongImages \X {[Channels |-> RGB, ColorSpace |-> SRGB]})

\* m.At(x, y) converted by color.NRGBAModel: the images are NRGBA images, which
\* the model returns as they are
At(img, x, y) == img.pix[y * img.w.lo + x + 1]

(***************************************************************************)
(* State.                                                                  *)
(***************************************************************************)
VARIABLES
    usePool,    \* whether Encoder.BufferPool is set
    pool,       \* the pool's field b: [nil, buf]
    calls,      \* Encode calls made so far
    epc,        \* where the current Encode call stands
    m,          \* the image of the current Encode call
    enc,        \* the options of the current Encode call
    e,          \* the encoder struct the current call works on
    ex, ey,     \* the loop variables x, y of writeChunks
    writes,     \* the Write calls the writer received in this call
    ret,        \* what the last Encode call returned
    eIndexLog,  \* e.index after each pixel of this call (history)
    mode,       \* which decoder entry point runs: Decode or DecodeConfig
    input,      \* the bytes behind the reader r
    rpos,       \* how many of them have been read
    d,          \* the decoder struct
    dpc,        \* where the decoder call stands
    dx, dy,     \* the loop variables x, y of Decode
    dret,       \* what Decode returned: [img, err]
    dcfg,       \* what DecodeConfig returned: [cfg, err]
    rawErr      \* the error parseHeader or advance returned last (history)

encVars == <<usePool, pool, calls, epc, m, enc, e, ex, ey, writes, ret, eIndexLog>>
decVars == <<mode, input, rpos, d, dpc, dx, dy, dret, dcfg, rawErr>>
vars == <<usePool, pool, calls, epc, m, enc, e, ex, ey, writes, ret, eIndexLog,
          mode, input, rpos, d, dpc, dx, dy, dret, dcfg, rawErr>>

\* new(pool): its field b is nil
EmptyPool == [nil |-> TRUE, buf |-> ZeroEncoder]

NoResult == [img |-> NilImage, err |-> NoErr]

\* image.Config{}
EmptyConfig == [ColorModel |-> "nil", Width |-> IntDim(0), Height |-> IntDim(0)]

NoConfig == [cfg |-> EmptyConfig, err |-> NoErr]

PanicErr == Err("panic", "image: NewNRGBA Rectangle has huge or negative dimensions", 0)

EncoderIdle ==
    /\ calls = 0 /\ epc = "idle" /\ m = NoImage
    /\ enc = [Channels |-> RGB, ColorSpace |-> SRGB]
    /\ e = ZeroEncoder /\ ex = 0 /\ ey = 0 /\ writes = <<>> /\ ret = NoErr
    /\ eIndexLog = <<>> /\ pool = EmptyPool

DecoderIdle ==
    /\ mode = "Decode" /\ input = <<>> /\ rpos = 0 /\ d = NewDecoder
    /\ dpc = "idle" /\ dx = 0 /\ dy = 0 /\ dret = NoResult /\ dcfg = NoConfig
    /\ rawErr = NoErr

Init ==
    /\ usePool \in BOOLEAN
    /\ EncoderIdle
    /\ DecoderIdle

(***************************************************************************)
(* Encoder.Encode, in steps: the size check; the buffer and the header;    *)
(* the entry of writeChunks; each iteration of its loop; its end; the end  *)
(* marker with the return and the deferred Put.                            *)
(***************************************************************************)
\* the caller may start an Encode call: it is in no other call
MayEncode ==
    /\ epc = "idle"
    /\ dpc = "idle"
    /\ calls < MaxCalls

EncodeReject ==
    /\ MayEncode
    /\ \E in \in EncodeInputs :
          /\ InvalidSize(in[1].w, in[1].h)
          /\ m' = in[1]
          /\ enc' = in[2]
    /\ ret' = FormatError("invalid image size")
    /\ writes' = <<>>
    /\ eIndexLog' = <<>>
    /\ epc' = "returned"
    /\ calls' = calls + 1
    /\ UNCHANGED <<usePool, pool, e, ex, ey>>
    /\ UNCHANGED decVars

EncodeBegin ==
    /\ MayEncode
    /\ \E in \in EncodeInputs, ok \in BOOLEAN :
          LET rec == WriteRecord(HeaderBytes(in[1], in[2]), ok, 1) IN
          /\ ~InvalidSize(in[1].w, in[1].h)
          /\ m' = in[1]
          /\ enc' = in[2]
          /\ e' = [ResetEncoder(GetBuffer(usePool, pool)) EXCEPT !.err = rec.err]
          /\ writes' = <<rec>>
    /\ eIndexLog' = <<>>
    /\ ex' = 0 /\ ey' = 0
    /\ epc' = "chunks"
    /\ calls' = calls + 1
    /\ UNCHANGED <<usePool, pool, ret>>
    /\ UNCHANGED decVars

\* "if e.err != nil { return }" at the top of writeChunks
ChunksSkipped(err) == err # NoErr

WriteChunksEnter ==
    /\ epc = "chunks"
    /\ epc' = IF ChunksSkipped(e.err) THEN "end" ELSE "loop"
    /\ UNCHANGED <<usePool, pool, calls, m, enc, e, ex, ey, writes, ret, eIndexLog>>
    /\ UNCHANGED decVars

\* the loops of writeChunks and of Decode have a pixel left at (x, y)
InLoop(x, y, w, h) == LessThanDim(y, h) /\ LessThanDim(x, w)

IsLast(x, y, w, h) == x = w.lo - 1 /\ y = h.lo - 1

\* the loop variables after the iteration at (x, y)
NextX(x, w) == IF x + 1 < w.lo THEN x + 1 ELSE 0
NextY(x, y, w) == IF x + 1 < w.lo THEN y ELSE y + 1

EncodePixel ==
    /\ epc = "loop"
    /\ InLoop(ex, ey, m.w, m.h)
    /\ LET st == PixelStep(e, At(m, ex, ey), IsLast(ex, ey, m.w, m.h)) IN
       \E ok \in BOOLEAN :
          LET rec == WriteRecord(st.emit, ok, Len(writes) + 1) IN
          /\ st.emit = <<>> => ok
          /\ writes' = IF st.emit = <<>> THEN writes ELSE Append(writes, rec)
          /\ e' = [e EXCEPT !.run = st.run,
                            !.err = IF st.emit = <<>> THEN @ ELSE rec.err]
    /\ eIndexLog' = IF Len(eIndexLog) < MaxLog THEN Append(eIndexLog, e'.index)
                                             ELSE eIndexLog
    /\ ex' = NextX(ex, m.w)
    /\ ey' = NextY(ex, ey, m.w)
    /\ UNCHANGED <<usePool, pool, calls, epc, m, enc, ret>>
    /\ UNCHANGED decVars

WriteChunksExit ==
    /\ epc = "loop"
    /\ ~InLoop(ex, ey, m.w, m.h)
    /\ epc' = "end"
    /\ UNCHANGED <<usePool, pool, calls, m, enc, e, ex, ey, writes, ret, eIndexLog>>
    /\ UNCHANGED decVars

\* "if e.err != nil { return }" at the top of writeEndMarker
EndMarkerSkipped(err) == err # NoErr

\* the deferred enc.BufferPool.Put
PutBuffer(use, p, buf) == IF use THEN [nil |-> FALSE, buf |-> buf] ELSE p

\* writeEndMarker, "return e.err" and the deferred Put; a call that returned
\* nil hands the bytes written to Decode, as the round-trip test does
EncodeFinish ==
    /\ epc = "end"
    /\ \E ok \in BOOLEAN :
          LET rec == WriteRecord(endMarker, ok, Len(writes) + 1) IN
          /\ EndMarkerSkipped(e.err) => ok
          /\ writes' = IF EndMarkerSkipped(e.err) THEN writes ELSE Append(writes, rec)
          /\ e' = IF EndMarkerSkipped(e.err) THEN e ELSE [e EXCEPT !.err = rec.err]
    /\ ret' = e'.err
    /\ pool' = PutBuffer(usePool, pool, e')
    /\ epc' = "returned"
    /\ IF ret' = NoErr
       THEN /\ input' = Written(writes')
            /\ dpc' = "start"
            /\ UNCHANGED <<mode, rpos, d, dx, dy, dret, dcfg, rawErr>>
       ELSE UNCHANGED decVars
    /\ UNCHANGED <<usePool, calls, m, enc, ex, ey, eIndexLog>>

(***************************************************************************)
(* Decode, in steps: parseHeader with its error handling; each iteration   *)
(* of the pixel loop; the return.  DecodeConfig is one step.               *)
(***************************************************************************)
DecodeBegin ==
    /\ dpc = "start"
    /\ mode = "Decode"
    /\ LET r == parseHeader(NewDecoder, input, 0) IN
       /\ d' = r.d
       /\ rpos' = r.pos
       /\ rawErr' = r.err
       /\ IF r.panic
          THEN dpc' = "panic" /\ dret' = [img |-> NilImage, err |-> PanicErr]
          ELSE IF r.err # NoErr
          THEN dpc' = "done" /\ dret' = [img |-> NilImage, err |-> MapEOF(r.err)]
          ELSE dpc' = "loop" /\ dret' = dret
    /\ dx' = 0 /\ dy' = 0
    /\ UNCHANGED <<mode, input, dcfg>>
    /\ UNCHANGED encVars

DecodePixel ==
    /\ dpc = "loop"
    /\ InLoop(dx, dy, d.width, d.height)
    /\ LET r == advance(d, input, rpos) IN
       /\ rpos' = r.pos
       /\ rawErr' = r.err
       /\ IF r.err # NoErr
          THEN /\ d' = r.d
               /\ dpc' = "done"
               /\ dret' = [img |-> NilImage, err |-> MapEOF(r.err)]
               /\ UNCHANGED <<dx, dy>>
          ELSE /\ d' = [r.d EXCEPT !.img = SetNRGBA(@, dx, dy, r.d.prev)]
               /\ dx' = NextX(dx, d.width)
               /\ dy' = NextY(dx, dy, d.width)
               /\ UNCHANGED <<dpc, dret>>
    /\ UNCHANGED <<mode, input, dcfg>>
    /\ UNCHANGED encVars

DecodeReturn ==
    /\ dpc = "loop"
    /\ ~InLoop(dx, dy, d.width, d.height)
    /\ dret' = [img |-> d.img, err |-> NoErr]
    /\ dpc' = "done"
    /\ UNCHANGED <<mode, input, rpos, d, dx, dy, dcfg, rawErr>>
    /\ UNCHANGED encVars

DecodeConfig ==
    /\ dpc = "start"
    /\ mode = "DecodeConfig"
    /\ LET r == parseHeader(NewConfigDecoder, input, 0) IN
       /\ d' = r.d
       /\ rpos' = r.pos
       /\ rawErr' = r.err
       /\ IF r.panic
          THEN dpc' = "panic" /\ dcfg' = [cfg |-> EmptyConfig, err |-> PanicErr]
          ELSE IF r.err # NoErr
          THEN dpc' = "done" /\ dcfg' = [cfg |-> EmptyConfig, err |-> MapEOF(r.err)]
          ELSE /\ dpc' = "done"
               /\ dcfg' = [cfg |-> [ColorModel |-> "color.NRGBAModel",
                                    Width |-> r.d.width, Height |-> r.d.height],
                           err |-> NoErr]
    /\ UNCHANGED <<mode, input, dx, dy, dret>>
    /\ UNCHANGED encVars

\* the caller's loop goes on to its next image: the finished call's arguments,
\* results and locals are gone, the Encoder and its pool stay
NextCall ==
    /\ epc = "returned"
    /\ dpc \in {"idle", "done", "panic"}
    /\ calls < MaxCalls
    /\ epc' = "idle" /\ m' = NoImage
    /\ enc' = [Channels |-> RGB, ColorSpace |-> SRGB]
    /\ e' = ZeroEncoder /\ ex' = 0 /\ ey' = 0 /\ writes' = <<>> /\ ret' = NoErr
    /\ eIndexLog' = <<>>
    /\ mode' = "Decode" /\ input' = <<>> /\ rpos' = 0 /\ d' = NewDecoder
    /\ dpc' = "idle" /\ dx' = 0 /\ dy' = 0 /\ dret' = NoResult
    /\ dcfg' = NoConfig /\ rawErr' = NoErr
    /\ UNCHANGED <<usePool, pool, calls>>

Next ==
    \/ NextCall
    \/ EncodeReject
    \/ EncodeBegin
    \/ WriteChunksEnter
    \/ EncodePixel
    \/ WriteChunksExit
    \/ EncodeFinish
    \/ DecodeBegin
    \/ DecodePixel
    \/ DecodeReturn

\* Encode calls through one Encoder, each successful one decoded again
Spec == Init /\ [][Next]_vars

(***************************************************************************)
(* The decoder on byte streams of any origin.                              *)
(***************************************************************************)
\* chunks of each kind: index 0, index 53, diff (-1,-1,-1), luma with
\* dg = -32 and dr-dg = db-dg = -8, run 1, run 61 (the largest field), RGB
\* red, RGBA black, RGBA (0,0,0,64) (a pixel whose slot is 0)
Chunks ==
    { <<0>>, <<53>>, <<85>>, <<128, 0>>, <<193>>, <<253>>,
      <<254, 255, 0, 0>>, <<255, 0, 0, 0, 255>>, <<255, 0, 0, 0, 64>> }

RECURSIVE Flatten(_)
Flatten(ss) == IF ss = <<>> THEN <<>> ELSE Head(ss) \o Flatten(Tail(ss))

\* the chunk streams of 0..MaxBody chunks
Bodies == UNION { { Flatten(cs) : cs \in [1..n -> Chunks] } : n \in 0..MaxBody }

\* what follows the chunks: nothing, the end marker, a marker with a wrong last
\* byte, a marker cut short, or a chunk cut short
Tails ==
    { <<>>, endMarker, <<0, 0, 0, 0, 0, 0, 0, 0>>, <<0, 0, 0, 0, 0, 0, 0>>,
      <<254, 255>>, <<255>>, <<128>> }

Header(mg, w, h, ch, cs) == mg \o w \o h \o <<ch, cs>>

\* the width and height fields: 0..MaxDim each, or 2^32-1 both
DimFields ==
    { <<<<0, 0, 0, w>>, <<0, 0, 0, h>>>> : w \in 0..MaxDim, h \in 0..MaxDim }
        \cup { <<<<255, 255, 255, 255>>, <<255, 255, 255, 255>>>> }

Headers ==
    { Header(mg, wh[1], wh[2], ch, cs) :
        mg \in {magic, <<113, 111, 105, 103>>}, wh \in DimFields,
        ch \in {2, 3, 4, 5}, cs \in {0, 1, 2} }

Prefixes(s) == { SubSeq(s, 1, n) : n \in 0..Len(s) }

\* streams that end in or with the header
HeaderStreams ==
    Headers \cup Prefixes(Header(magic, <<0, 0, 0, 1>>, <<0, 0, 0, 1>>, 4, 0))
            \cup { <<113, 111, 105, 103>> }

\* streams with a header that passes parseHeader, chunks and a tail
ChunkStreams ==
    { Header(magic, <<0, 0, 0, w>>, <<0, 0, 0, h>>, 4, 0) \o body \o tail :
        w \in 0..MaxDim, h \in 0..MaxDim, body \in Bodies, tail \in Tails }

DecodeInputs ==
    ({"Decode", "DecodeConfig"} \X HeaderStreams) \cup ({"Decode"} \X ChunkStreams)

InitDec ==
    /\ usePool = FALSE
    /\ EncoderIdle
    /\ \E in \in DecodeInputs : mode = in[1] /\ input = in[2]
    /\ rpos = 0 /\ d = NewDecoder /\ dpc = "start" /\ dx = 0 /\ dy = 0
    /\ dret = NoResult /\ dcfg = NoConfig /\ rawErr = NoErr

NextDec ==
    \/ DecodeBegin
    \/ DecodePixel
    \/ DecodeReturn
    \/ DecodeConfig

\* one Decode or DecodeConfig call on a stream
SpecDec == InitDec /\ [][NextDec]_vars

(***************************************************************************)
(* The diff and luma chunks on many values: Decode of a 2 x 1 stream whose *)
(* first chunk is an RGBA chunk that sets prev, and whose second chunk is  *)
(* a diff chunk (every tag) or a luma chunk (every tag, a choice of second *)
(* bytes).                                                                 *)
(***************************************************************************)
\* values of prev: the three colour channels differ and lie at, next to and
\* far from both ends of 0..255; alpha is 0 or 255
OpPrevs ==
    { NRGBA(v, (v + 1) % 256, (v + 2) % 256, a) :
        v \in {0, 1, 2, 40, 127, 253, 254, 255}, a \in {0, 255} }

\* second bytes of a luma chunk: each nibble is 0, 7, 8 or 15
LumaBytes == { hn * 16 + ln : hn \in {0, 7, 8, 15}, ln \in {0, 7, 8, 15} }

OpChunks ==
    { <<t>> : t \in opDiff..(opLuma - 1) }
        \cup { <<t, b>> : t \in opLuma..(opRun - 1), b \in LumaBytes }

OpInputs ==
    { Header(magic, <<0, 0, 0, 2>>, <<0, 0, 0, 1>>, 4, 0)
        \o <<opRGBA, p.R, p.G, p.B, p.A>> \o c : p \in OpPrevs, c \in OpChunks }

InitOp ==
    /\ usePool = FALSE
    /\ EncoderIdle
    /\ mode = "Decode"
    /\ input \in OpInputs
    /\ rpos = 0 /\ d = NewDecoder /\ dpc = "start" /\ dx = 0 /\ dy = 0
    /\ dret = NoResult /\ dcfg = NoConfig /\ rawErr = NoErr

NextOp ==
    \/ DecodeBegin
    \/ DecodePixel
    \/ DecodeReturn

\* one Decode call on a stream of OpInputs
SpecOp == InitOp /\ [][NextOp]_vars

(***************************************************************************)
(* Both uses together: Encode calls with their round trips, and Decode or  *)
(* DecodeConfig on byte streams of any origin.                             *)
(***************************************************************************)
InitAll == Init \/ InitDec

NextAll ==
    \/ NextCall
    \/ EncodeReject
    \/ EncodeBegin
    \/ WriteChunksEnter
    \/ EncodePixel
    \/ WriteChunksExit
    \/ EncodeFinish
    \/ DecodeBegin
    \/ DecodePixel
    \/ DecodeReturn
    \/ DecodeConfig

SpecAll == InitAll /\ [][NextAll]_vars

(***************************************************************************)
(* Notions the properties share.                                           *)
(***************************************************************************)
\* every Write of the current Encode call succeeded
AllWritesOK == \A i \in 1..Len(writes) : writes[i].err = NoErr

\* the current Encode call has returned, and was given a size Encode accepts
EncodeReturned == epc = "returned" /\ m.w \notin BadDims /\ m.h \notin BadDims

\* the pixels the Decode loop has produced so far
DecodedPixels == dy * d.width.lo + dx

\* what the decoder call in progress returned as its error
CallErr == IF mode = "Decode" THEN dret.err ELSE dcfg.err

\* the input holds a whole header; its fields
HasHeader == Len(input) >= headerLen
HeaderMagic == SubSeq(input, 1, 4)
HeaderWidth == Uint32(SubSeq(input, 5, 8))
HeaderHeight == Uint32(SubSeq(input, 9, 12))
HeaderChannels == input[13]
HeaderColorSpace == input[14]

(***************************************************************************)
(* C1.  Round trip: Encode of an image of at least 1 x 1 pixels succeeds   *)
(* (on a writer that takes every write), and Decode of the bytes written   *)
(* returns no error and an image of the same width and height with the     *)
(* same RGBA value at every pixel.                                         *)
(***************************************************************************)
C1_RoundTrip ==
    /\ (EncodeReturned /\ AllWritesOK) => ret = NoErr
    /\ (EncodeReturned /\ ret = NoErr /\ dpc = "done") =>
          /\ dret.err = NoErr
          /\ ~dret.img.nil
          /\ dret.img.w = m.w
          /\ dret.img.h = m.h
          /\ dret.img.pix = m.pix

(***************************************************************************)
(* C2.  Cache parity: once the decoder has produced the first N pixels     *)
(* from the encoder's output, its index equals, slot by slot, the index    *)
(* the encoder had after its first N pixels.                               *)
(***************************************************************************)
C2_CacheParity ==
    (EncodeReturned /\ dpc = "loop" /\ DecodedPixels \in 1..Len(eIndexLog)) =>
        d.index = eIndexLog[DecodedPixels]

(***************************************************************************)
(* C3.  Decode returns an image (of at least one pixel) only after it has  *)
(* read the 8 bytes that follow the last pixel's chunk and found them to   *)
(* be the end marker, seven 0x00 and 0x01.                                 *)
(***************************************************************************)
C3_EndMarkerVerified ==
    (mode = "Decode" /\ dpc = "done" /\ dret.err = NoErr /\ Len(dret.img.pix) >= 1) =>
        /\ rpos >= headerLen + Len(endMarker)
        /\ SubSeq(input, rpos - Len(endMarker) + 1, rpos) = endMarker

(***************************************************************************)
(* C4.  Bounds rejection: a header that passes the magic, channel and      *)
(* color space checks and whose width is 0, whose height is 0, or whose    *)
(* pixel count is beyond every maximum an int can state (2^32-1 squared)   *)
(* makes Decode and DecodeConfig return a FormatError, and no pixel buffer *)
(* is allocated for it.                                                    *)
(***************************************************************************)
HeaderVerdict ==
    IF HeaderMagic # magic THEN FormatError("not a QOI file")
    ELSE IF HeaderChannels \notin {3, 4} THEN FormatError("invalid channel count")
    ELSE IF HeaderColorSpace \notin {0, 1} THEN FormatError("invalid color space")
    ELSE NoErr

C4_BoundsRejection ==
    (/\ dpc # "start" /\ HasHeader /\ HeaderVerdict = NoErr
     /\ \/ HeaderWidth = IntDim(0)
        \/ HeaderHeight = IntDim(0)
        \/ HeaderWidth = Dim(65535, 65535) /\ HeaderHeight = Dim(65535, 65535)) =>
        /\ dpc = "done"
        /\ CallErr.kind = "FormatError"
        /\ d.img.nil

(***************************************************************************)
(* C5.  Header validation: on a whole 14-byte header Decode and            *)
(* DecodeConfig return FormatError "not a QOI file" when the magic is      *)
(* wrong, else "invalid channel count" when byte 12 is not 3 or 4, else    *)
(* "invalid color space" when byte 13 is not 0 or 1, with no image and an  *)
(* empty config; a header passing the three checks yields the big-endian   *)
(* width and height of bytes 4..11.                                        *)
(***************************************************************************)
C5_HeaderValidation ==
    (dpc # "start" /\ HasHeader) =>
        IF HeaderVerdict # NoErr
        THEN /\ dpc = "done"
             /\ CallErr = HeaderVerdict
             /\ dret.img.nil
             /\ dcfg.cfg = EmptyConfig
        ELSE /\ dpc # "panic"
             /\ d.width = HeaderWidth
             /\ d.height = HeaderHeight
             /\ mode = "DecodeConfig" =>
                   /\ dcfg.err = NoErr
                   /\ dcfg.cfg.Width = HeaderWidth
                   /\ dcfg.cfg.Height = HeaderHeight

(***************************************************************************)
(* C6.  Truncation: when the input ends where Decode needs more bytes, in  *)
(* the header or in the chunks (also with no chunk byte at all), Decode    *)
(* returns io.ErrUnexpectedEOF, never io.EOF and never success, and no     *)
(* image.                                                                  *)
(***************************************************************************)
\* the reader ran out of bytes in the last read
RanOut == rawErr \in {EOF, ErrUnexpectedEOF}

\* the input stops inside a header that is right as far as it goes
CutHeader ==
    /\ Len(input) < headerLen
    /\ \/ Len(input) < Len(magic)
       \/ HeaderMagic = magic

\* the input is a header that passes the checks, for at least one pixel, and
\* nothing more
BareHeader ==
    /\ Len(input) = headerLen
    /\ HeaderVerdict = NoErr
    /\ HeaderWidth \in { IntDim(n) : n \in 1..MaxDim }
    /\ HeaderHeight \in { IntDim(n) : n \in 1..MaxDim }

TruncationReported == dret = [img |-> NilImage, err |-> ErrUnexpectedEOF]

C7_SizeCheckBeforeWrite ==
    /\ (epc # "idle" /\ (m.w \in BadDims \/ m.h \in BadDims)) =>
          /\ epc = "returned"
          /\ ret.kind = "FormatError"
          /\ writes = <<>>
    /\ (epc # "idle" /\ m.w \notin BadDims /\ m.h \notin BadDims) =>
          /\ Len(writes) >= 1
          /\ Len(writes[1].data) = headerLen
          /\ SubSeq(writes[1].data, 1, 4) = magic
          /\ Uint32(SubSeq(writes[1].data, 5, 8)) = m.w
          /\ Uint32(SubSeq(writes[1].data, 9, 12)) = m.h

\* Encode has refused an image 2^32 pixels wide without a write
C7_Witness ==
    /\ epc = "returned" /\ m.w = Dim(65536, 0) /\ m.h = IntDim(1)
    /\ ret.kind = "FormatError" /\ writes = <<>>

(***************************************************************************)
(* C8.  Write short-circuit: after a Write has failed, Encode issues no    *)
(* further Write, and it returns the error of that first failed Write.     *)
(***************************************************************************)
FailedWrites == { i \in 1..Len(writes) : writes[i].err # NoErr }

FirstFailed == CHOOSE i \in FailedWrites : \A j \in FailedWrites : i <= j

C8_WriteShortCircuit ==
    /\ \A i \in FailedWrites : i = Len(writes)
    /\ (epc = "returned" /\ FailedWrites # {}) => ret = writes[FirstFailed].err

(***************************************************************************)
(* C9.  No state is shared across Encode calls: a call, whatever calls     *)
(* went before through the same pool, writes the bytes a freshly allocated *)
(* encoder writes for the same image and options.                          *)
(***************************************************************************)
RECURSIVE FreshChunks(_, _, _)
\* the bytes the loop of writeChunks writes from the k-th pixel on
FreshChunks(img, k, enc0) ==
    IF k > Len(img.pix) THEN <<>>
    ELSE LET st == PixelStep(enc0, img.pix[k], k = Len(img.pix)) IN
         st.emit \o FreshChunks(img, k + 1, [enc0 EXCEPT !.run = st.run])

\* the bytes Encode writes with e = &encoder{} and a writer that takes them
FreshBytes(img, opts) ==
    HeaderBytes(img, opts) \o FreshChunks(img, 1, ResetEncoder(ZeroEncoder))
                           \o endMarker

C9_NoSharedState ==
    (EncodeReturned /\ AllWritesOK) => Written(writes) = FreshBytes(m, enc)

(***************************************************************************)
(* C10.  Scenario A: encoding the 1 x 1 image of the pixel (0,0,0,255)     *)
(* with RGBA and sRGB writes the header "qoif", 1, 1, 4, 0, the chunk      *)
(* FF 00 00 00 FF and the end marker; decoding these bytes returns a       *)
(* 1 x 1 image of the pixel (0,0,0,255).                                   *)
(***************************************************************************)
ScenarioAImage == Image(IntDim(1), IntDim(1), <<StartPixel>>)

ScenarioABytes ==
    <<113, 111, 105, 102, 0, 0, 0, 1, 0, 0, 0, 1, 4, 0,
      255, 0, 0, 0, 255, 0, 0, 0, 0, 0, 0, 0, 1>>

C10_ScenarioA ==
    /\ (/\ epc = "returned" /\ m = ScenarioAImage
        /\ enc = [Channels |-> RGBA, ColorSpace |-> SRGB]
        /\ AllWritesOK) => Written(writes) = ScenarioABytes
    /\ (mode = "Decode" /\ dpc = "done" /\ input = ScenarioABytes) =>
          dret = [img |-> [nil |-> FALSE, w |-> IntDim(1), h |-> IntDim(1),
                           pix |-> <<StartPixel>>],
                  err |-> NoErr]

(***************************************************************************)
(* Notions of the encoder's loop the properties share.                     *)
(***************************************************************************)
\* this step is an iteration of the loop of writeChunks
PixelIteration == epc = "loop" /\ (ex' # ex \/ ey' # ey)

\* the pixel that iteration works on
CurrentPixel == At(m, ex, ey)

\* the iteration issued a Write; the bytes of it
WroteChunk == Len(writes') = Len(writes) + 1
LastWritten == writes'[Len(writes')].data

(***************************************************************************)
(* C11.  Scenario B: encoding the 3 x 1 image of three pixels              *)
(* (255,0,0,255) writes the header, one literal chunk (RGB or RGBA) for    *)
(* the first pixel, one run chunk for the two pixels that repeat it        *)
(* (0xC0 | (2 - 1)) and the end marker; decoding what was written returns  *)
(* three pixels (255,0,0,255).                                             *)
(***************************************************************************)
ScenarioBImage == Image(IntDim(3), IntDim(1), <<Red, Red, Red>>)

ScenarioBChunks ==
    { lit \o <<193>> : lit \in { <<254, 255, 0, 0>>, <<255, 255, 0, 0, 255>> } }

C11_ScenarioB ==
    /\ (epc = "returned" /\ m = ScenarioBImage /\ AllWritesOK) =>
          \E cs \in ScenarioBChunks :
              Written(writes) = HeaderBytes(m, enc) \o cs \o endMarker
    /\ (epc = "returned" /\ m = ScenarioBImage /\ ret = NoErr /\ dpc = "done") =>
          /\ dret.err = NoErr
          /\ dret.img.pix = <<Red, Red, Red>>

(***************************************************************************)
(* C12.  Run encoding: when an iteration of the encoder's loop flushes a   *)
(* run of n pixels equal to prev (n reached 62, or the pixel is the last   *)
(* of the image), the one byte written is 0xC0 | (n - 1), a value in       *)
(* 0xC0..0xFD, and run is 0 afterwards.  (First call of an encoder: run    *)
(* counts the pixels of this image.)                                       *)
(***************************************************************************)
C12_RunEncoding ==
    [][(/\ PixelIteration /\ calls = 1
        /\ CurrentPixel = e.prev
        /\ FlushRun(e.run + 1, IsLast(ex, ey, m.w, m.h))) =>
          /\ WroteChunk
          /\ LastWritten = <<opRun + (e.run + 1) - 1>>
          /\ LastWritten[1] \in 192..253
          /\ e'.run = 0]_vars

(***************************************************************************)
(* C13.  Pending-run flush: an iteration on a pixel that differs from prev *)
(* while run > 0 writes the run chunk first and leaves run = 0; and no run *)
(* is pending when the end marker is written.                              *)
(***************************************************************************)
C13_PendingRunFlushed ==
    [][/\ (PixelIteration /\ CurrentPixel # e.prev /\ e.run > 0) =>
             /\ Len(writes') > Len(writes)
             /\ writes'[Len(writes) + 1].data[1] \in 192..253
             /\ Len(writes'[Len(writes) + 1].data) = 1
             /\ e'.run = 0
       /\ (epc = "end" /\ epc' = "returned" /\ Len(writes') > Len(writes)) =>
             e.run = 0]_vars

(***************************************************************************)
(* C14.  Chunk selection: for a pixel that differs from prev the encoder   *)
(* writes exactly one chunk for it, the first that applies of: index chunk *)
(* (the pixel is in its slot of the index), diff chunk (alpha unchanged,   *)
(* dr, dg, db in -2..1), luma chunk (alpha unchanged, dg in -32..31,       *)
(* dr-dg and db-dg in -8..7), RGB chunk (alpha unchanged), RGBA chunk; and *)
(* afterwards index[hash(pixel) % 64] = pixel and prev = pixel.            *)
(***************************************************************************)
\* a difference of two bytes, read as a signed 8-bit number
Signed(n) == LET k == n % 256 IN IF k >= 128 THEN k - 256 ELSE k

ChosenChunk(index, prev, c) ==
    LET dr == Signed(c.R - prev.R)
        dg == Signed(c.G - prev.G)
        db == Signed(c.B - prev.B)
        drg == Signed(dr - dg)
        dbg == Signed(db - dg)
    IN  IF index[hash(c) % indexLen] = c THEN <<opIndex + (hash(c) % indexLen)>>
        ELSE IF c.A = prev.A /\ dr \in -2..1 /\ dg \in -2..1 /\ db \in -2..1
        THEN <<opDiff + (dr + 2) * 16 + (dg + 2) * 4 + (db + 2)>>
        ELSE IF c.A = prev.A /\ dg \in -32..31 /\ drg \in -8..7 /\ dbg \in -8..7
        THEN <<opLuma + dg + 32, (drg + 8) * 16 + (dbg + 8)>>
        ELSE IF c.A = prev.A THEN <<opRGB, c.R, c.G, c.B>>
        ELSE <<opRGBA, c.R, c.G, c.B, c.A>>

C14_ChunkSelection ==
    [][(PixelIteration /\ CurrentPixel # e.prev) =>
          /\ Len(writes') = Len(writes) + 1 + (IF e.run > 0 THEN 1 ELSE 0)
          /\ LastWritten = ChosenChunk(e.index, e.prev, CurrentPixel)
          /\ e'.index[hash(CurrentPixel) % indexLen] = CurrentPixel
          /\ e'.prev = CurrentPixel]_vars

(***************************************************************************)
(* Notions of the decoder's loop the properties share.                     *)
(***************************************************************************)
\* this step is a call of advance from the loop of Decode
AdvanceCall ==
    /\ dpc = "loop" /\ InLoop(dx, dy, d.width, d.height)
    /\ (dpc' # dpc \/ dx' # dx \/ dy' # dy)

\* the call read a tag byte (and whatever the tag asks for) without an error
TagRead == AdvanceCall /\ d.run = 0 /\ rpos' > rpos /\ rawErr' = NoErr

\* the tag byte of that call
Tag == input[rpos + 1]

\* the pixel Decode has set after the call
PixelSet == d'.img.pix[dy * d.width.lo + dx + 1]

(***************************************************************************)
(* C15.  A run tag (0xC0..0xFD) makes advance set run to the tag's low six *)
(* bits and leave prev and every slot of the index as they were, also at   *)
(* the start of the stream, where the index is all zero.                   *)
(***************************************************************************)
C15_RunTagFrame ==
    [][(TagRead /\ Tag \in 192..253) =>
          /\ d'.run = Tag % 64
          /\ d'.prev = d.prev
          /\ d'.index = d.index]_vars

(***************************************************************************)
(* C16.  An index chunk with index i makes prev the pixel of slot i, and   *)
(* leaves every slot of the index as it was, in every state of the         *)
(* decoder.                                                                *)
(***************************************************************************)
C16_IndexChunkNoOp ==
    [][(TagRead /\ Tag \in 0..63) =>
          /\ d'.prev = d.index[Tag]
          /\ d'.index = d.index]_vars

\* C16 as amended: prev becomes the pixel of slot i; the index is unchanged
\* when slot i holds anything but the all-zero pixel, or when slot 0 holds the
\* all-zero pixel; else (slot i is all zero, slot 0 is not) slot 0 becomes the
\* all-zero pixel and the other 63 slots are unchanged
C16_IndexChunkStore ==
    [][(TagRead /\ Tag \in 0..63) =>
          /\ d'.prev = d.index[Tag]
          /\ (d.index[Tag] # ZeroPixel \/ d.index[0] = ZeroPixel) =>
                d'.index = d.index
          /\ (d.index[Tag] = ZeroPixel /\ d.index[0] # ZeroPixel) =>
                /\ d'.index[0] = ZeroPixel
                /\ \A i \in 1..(indexLen - 1) : d'.index[i] = d.index[i]]_vars

\* the second pixel came from the index chunk 53, after an RGBA chunk had
\* stored (0,0,0,255) there
C16_Witness ==
    /\ mode = "Decode" /\ dpc = "loop" /\ DecodedPixels = 2 /\ rpos = 20
    /\ input[15] = opRGBA /\ input[20] = 53
    /\ d.prev = StartPixel /\ d.index[53] = StartPixel

(***************************************************************************)
(* C17.  advance called with run > 0 takes 1 from run, reads no byte and   *)
(* leaves prev and every slot of the index as they were; the pixel of the  *)
(* call is prev.  A run tag with the field v sets run = v and its pixel is *)
(* prev, so the tag and the v calls after it give v + 1 copies of prev.    *)
(***************************************************************************)
C17_RunCountdown ==
    [][/\ (AdvanceCall /\ d.run > 0) =>
             /\ d'.run = d.run - 1
             /\ rpos' = rpos
             /\ rawErr' = NoErr
             /\ d'.prev = d.prev
             /\ d'.index = d.index
             /\ PixelSet = d.prev
       /\ (TagRead /\ Tag \in 192..253) =>
             /\ d'.run = Tag - opRun
             /\ rpos' = rpos + 1
             /\ PixelSet = d.prev]_vars

\* a 2 x 2 image of four pixels (0,0,0,255) from the one chunk byte 0xFD
C17_Witness ==
    /\ mode = "Decode" /\ dpc = "done" /\ dret.err = NoErr
    /\ rpos = headerLen + 1 /\ input[rpos] = 253
    /\ dret.img.pix = <<StartPixel, StartPixel, StartPixel, StartPixel>>
    /\ d.run = 58

(***************************************************************************)
(* C18.  Run counter range: between two calls of the decoder's advance and *)
(* between two iterations of the encoder's loop, run is in 0..61, for      *)
(* every byte stream and every image (run of a buffer at rest in the pool  *)
(* included).                                                              *)
(***************************************************************************)
C18_RunRange ==
    /\ d.run \in 0..(maxRun - 1)
    /\ e.run \in 0..(maxRun - 1)
    /\ pool.buf.run \in 0..(maxRun - 1)

\* the encoder has counted 61 pixels equal to prev
C18_Witness == epc = "loop" /\ e.run = maxRun - 1 /\ ex = maxRun - 1

(***************************************************************************)
(* Notions of the properties about one chunk (SpecOp).                     *)
(***************************************************************************)
\* prev before the chunk: the pixel of the RGBA chunk at bytes 15..19
OldPrev == NRGBA(input[16], input[17], input[18], input[19])

\* the tag of the chunk, and the byte after it
OpTag == input[20]
OpByte == input[21]

\* Decode has made the second pixel from the chunk
ChunkDecoded == dpc \in {"loop", "done"} /\ DecodedPixels = 2

(***************************************************************************)
(* C19.  Diff chunk: for every tag t = 01rrggbb and every prev, advance    *)
(* adds rr - 2, gg - 2 and bb - 2 to prev's R, G and B modulo 256, leaves  *)
(* A as it was, reads no byte after the tag, and stores the new prev at    *)
(* index[hash(prev) % 64].                                                 *)
(***************************************************************************)
C19_DiffChunk ==
    /\ (dpc = "done" /\ OpTag \in 64..127) => dret.err = NoErr
    /\ (ChunkDecoded /\ OpTag \in 64..127) =>
          /\ d.prev.R = (OldPrev.R + ((OpTag \div 16) % 4) - 2 + 256) % 256
          /\ d.prev.G = (OldPrev.G + ((OpTag \div 4) % 4) - 2 + 256) % 256
          /\ d.prev.B = (OldPrev.B + (OpTag % 4) - 2 + 256) % 256
          /\ d.prev.A = OldPrev.A
          /\ rpos = 20
          /\ d.index[hash(d.prev) % 64] = d.prev
          /\ d.img.pix[2] = d.prev

\* the tag 0x40 (-2, -2, -2) on prev (0,1,2,255): R and G wrap below 0
C19_Witness ==
    /\ ChunkDecoded /\ OldPrev = NRGBA(0, 1, 2, 255) /\ OpTag = 64
    /\ d.prev = NRGBA(254, 255, 0, 255)

(***************************************************************************)
(* C20.  Luma chunk: for every tag t = 10gggggg, every second byte b and   *)
(* every prev, with dg = (t & 0x3F) - 32, drg = b >> 4, dbg = b & 0x0F,    *)
(* advance adds dg to prev's G, dg - 8 + drg to R and dg - 8 + dbg to B,   *)
(* modulo 256, leaves A as it was, and stores the new prev at              *)
(* index[hash(prev) % 64].                                                 *)
(***************************************************************************)
C20_LumaChunk ==
    /\ (dpc = "done" /\ OpTag \in 128..191) => dret.err = NoErr
    /\ (ChunkDecoded /\ OpTag \in 128..191) =>
          LET dg == (OpTag % 64) - 32
              drg == OpByte \div 16
              dbg == OpByte % 16
          IN  /\ d.prev.G = (OldPrev.G + dg + 256) % 256
              /\ d.prev.R = (OldPrev.R + dg - 8 + drg + 256) % 256
              /\ d.prev.B = (OldPrev.B + dg - 8 + dbg + 256) % 256
              /\ d.prev.A = OldPrev.A
              /\ rpos = 21
              /\ d.index[hash(d.prev) % 64] = d.prev
              /\ d.img.pix[2] = d.prev

\* the tag 0xBF (dg = 31) and the byte 0xFF (+7, +7) on prev (255,0,1,255):
\* R and B wrap above 255
C20_Witness ==
    /\ ChunkDecoded /\ OldPrev = NRGBA(255, 0, 1, 255)
    /\ OpTag = 191 /\ OpByte = 255
    /\ d.prev = NRGBA(37, 31, 39, 255)

(***************************************************************************)
(* C21.  Slot invariant of the decoder's index: in every state, on every   *)
(* byte stream, slot i of the 64 slots 0..63 holds the pixel (0,0,0,0) or  *)
(* a pixel p with (3*p.R + 5*p.G + 7*p.B + 11*p.A) mod 256 mod 64 = i; a   *)
(* call of advance changes no slot but the hash slot of the new prev,      *)
(* where it stores prev; and an index chunk reads a slot in 0..63.         *)
(***************************************************************************)
\* the slot of a pixel, from its four channels
SlotOf(p) == ((3 * p.R + 5 * p.G + 7 * p.B + 11 * p.A) % 256) % 64

SlotsHoldTheirPixels ==
    /\ DOMAIN d.index = 0..63
    /\ \A i \in 0..63 : d.index[i] = ZeroPixel \/ SlotOf(d.index[i]) = i

C21_SlotInvariant ==
    /\ []SlotsHoldTheirPixels
    /\ [][/\ \A i \in 0..63 :
                d'.index[i] # d.index[i] =>
                    /\ AdvanceCall
                    /\ d'.index[i] = d'.prev
                    /\ SlotOf(d'.prev) = i
          /\ (TagRead /\ BitAnd(Tag, opMask2) = opIndex) => Tag \in 0..63]_vars

\* an RGB chunk has put red in slot 50 and an RGBA chunk (0,0,0,255) in
\* slot 53
C21_Witness ==
    /\ mode = "Decode" /\ dpc = "loop" /\ DecodedPixels = 2
    /\ input[15] = opRGB /\ input[19] = opRGBA
    /\ d.index[50] = Red /\ d.index[53] = StartPixel

=============================================================================
